---- MODULE Spec2Model ----
(***************************************************************************)
(* Authentication and credential migration of the users backend:          *)
(* routes/login.js (handleRegister, handleLogin, logout), middleware/      *)
(* auth.js (verifyToken) and the protected routes/users.js, over the       *)
(* tbl_users table.                                                        *)
(*                                                                         *)
(* Strings that the code inspects (trim, startsWith, slice, ===) are       *)
(* sequences of one-character strings.  Every await of a handler is a      *)
(* separate step, so requests interleave exactly at the awaits.            *)
(***************************************************************************)
EXTENDS Integers, Sequences, FiniteSets, TLC

VARIABLES
    env,        \* process.env: SECRET_KEY and JWT_SECRET ("" when unset)
    tbl_users,  \* the rows of tbl_users
    nextId,     \* AUTO_INCREMENT counter of tbl_users.id
    now,        \* the clock, in seconds (NOW(), and the NumericDate of jwt)
    logins,     \* the POST /login requests: position and locals of each
    regs,       \* the POST /register requests
    vreq,       \* the request last seen by verifyToken, and what became of it
    ureqs       \* the requests to /api/users and POST /logout

vars == <<env, tbl_users, nextId, now, logins, regs, vreq, ureqs>>

\* ---------------------------------------------------------------- bounds
MaxLogins == 2
MaxRegisters == 2
MaxUserReqs == 2

LoginIds == 1..MaxLogins
RegIds == 1..MaxRegisters
UserReqIds == 1..MaxUserReqs

\* ------------------------------------------------------- string helpers
IsSpace(c) == c = " "

RECURSIVE TrimStart(_)
TrimStart(s) ==
    IF s = <<>> THEN s
    ELSE IF IsSpace(Head(s)) THEN TrimStart(Tail(s)) ELSE s

RECURSIVE TrimEnd(_)
TrimEnd(s) ==
    IF s = <<>> THEN s
    ELSE IF IsSpace(s[Len(s)]) THEN TrimEnd(SubSeq(s, 1, Len(s) - 1)) ELSE s

\* faulty variant: the string is taken as it was sent
TrimNone(s) == s

\* String.prototype.trim
Trim(s) == TrimEnd(TrimStart(s))

\* String.prototype.startsWith
StartsWith(s, p) == Len(s) >= Len(p) /\ SubSeq(s, 1, Len(p)) = p

\* String.prototype.slice(n)
Slice(s, n) == SubSeq(s, n + 1, Len(s))

\* SQL NULL / JS null in a string column
Null == <<"null">>

\* x || null
OrNull(s) == IF s = <<>> THEN Null ELSE s

\* ------------------------------------------------------------- bcryptjs
Salts == {"s1", "s2"}

HashMarker == <<"$", "2">>

BcryptPrefix == <<"$", "2", "b", "$">>

\* the digest part of an encoded hash: one symbol per input character
Digest(p) == [i \in 1..Len(p) |-> "#" \o p[i]]

\* bcrypt.hash(p, 10) with the salt it drew
BcryptHash(p, salt) == BcryptPrefix \o <<salt>> \o Digest(p)

\* faulty variant: a stored value that is no hash is compared as text
BcryptCompareOrEqual(p, h) ==
    \/ p = h
    \/ /\ Len(h) >= Len(BcryptPrefix) + 1
       /\ StartsWith(h, BcryptPrefix)
       /\ h[Len(BcryptPrefix) + 1] \in Salts
       /\ h = BcryptHash(p, h[Len(BcryptPrefix) + 1])

\* bcrypt.compare(p, h): false for anything that is not an encoded hash
BcryptCompare(p, h) ==
    /\ Len(h) >= Len(BcryptPrefix) + 1
    /\ StartsWith(h, BcryptPrefix)
    /\ h[Len(BcryptPrefix) + 1] \in Salts
    /\ h = BcryptHash(p, h[Len(BcryptPrefix) + 1])

\* ------------------------------------------------------------ responses
NoRes == [status |-> 0, body |-> <<>>]

\* faulty variant: the body has the error key only
sendErrorOnlyError(status, message) == [status |-> status, body |-> [error |-> message]]

\* sendError(res, status, message)
sendError(status, message) ==
    [status |-> status, body |-> [error |-> message, message |-> message]]

\* ---------------------------------------------------------------- store
NoRow ==
    [id |-> 0, firstname |-> Null, fullname |-> Null, lastname |-> Null,
     username |-> <<>>, password |-> <<>>, status |-> "", updated_at |-> 0]

InitialRows ==
    { [id |-> 1, firstname |-> <<"J">>, fullname |-> <<"J", "D">>,
       lastname |-> <<"D">>, username |-> <<"j">>, password |-> <<"a">>,
       status |-> "active", updated_at |-> 0],
      [id |-> 2, firstname |-> Null, fullname |-> Null,
       lastname |-> Null, username |-> <<"m">>,
       password |-> BcryptHash(<<"b">>, "s1"),
       status |-> "banned", updated_at |-> 0],
      [id |-> 3, firstname |-> Null, fullname |-> Null,
       lastname |-> Null, username |-> <<"d">>,
       password |-> <<"$", "2", "x">>,
       status |-> "active", updated_at |-> 0] }

\* SELECT ... FROM tbl_users WHERE username = ? LIMIT 1
SelectByUsername(rows, username) == {row \in rows : row.username = username}

\* faulty variant: the UPDATE spares a password that is already hashed
UpdatePasswordFirstWins(rows, id, value, t) ==
    { IF row.id = id /\ ~StartsWith(row.password, HashMarker)
      THEN [row EXCEPT !.password = value, !.updated_at = t]
      ELSE row : row \in rows }

\* UPDATE tbl_users SET password = ?, updated_at = NOW() WHERE id = ?
UpdatePassword(rows, id, value, t) ==
    { IF row.id = id
      THEN [row EXCEPT !.password = value, !.updated_at = t]
      ELSE row : row \in rows }

\* ------------------------------------------------------------- jwt, env
\* expiresIn: "1h", in seconds
ExpiresIn == 3600

\* faulty variant: a built-in default when neither variable is set
SecretKeyDefault(e) ==
    IF e.SECRET_KEY # "" THEN e.SECRET_KEY
    ELSE IF e.JWT_SECRET # "" THEN e.JWT_SECRET ELSE "changeme"

\* process.env.SECRET_KEY || process.env.JWT_SECRET
SecretKey(e) == IF e.SECRET_KEY # "" THEN e.SECRET_KEY ELSE e.JWT_SECRET

\* faulty variant: the token lives for a day
JwtSignDay(claims, key, t) ==
    [claims |-> claims, iat |-> t, exp |-> t + 24 * ExpiresIn, key |-> key]

\* jwt.sign(claims, key, {expiresIn: "1h"}) at time t
JwtSign(claims, key, t) ==
    [claims |-> claims, iat |-> t, exp |-> t + ExpiresIn, key |-> key]

\* the payload handleLogin signs
LoginClaims(user) ==
    [role |-> "user", id |-> user.id, fullname |-> user.fullname,
     lastname |-> user.lastname, status |-> user.status]

\* ---------------------------------------------------------- handleLogin
\* the columns the lookup selects
LoginColumns ==
    {"id", "firstname", "fullname", "lastname", "username", "password", "status"}

Project(row, cols) == [f \in cols |-> row[f]]

NoUser == Project(NoRow, LoginColumns)

\* faulty variant: the whole record goes out
SafeUserLeaky(user) == user

\* const { password: _omit, ...safeUser } = user
SafeUser(user) == [f \in DOMAIN user \ {"password"} |-> user[f]]

\* faulty variant: only the "$2a" variant is recognised
IsHashedOnly2a(dbPass) == StartsWith(dbPass, <<"$", "2", "a">>)

\* dbPass.startsWith("$2")
IsHashed(dbPass) == StartsWith(dbPass, HashMarker)

\* faulty variant: the lengths are compared
LegacyMatchLength(password, dbPass) == Len(password) = Len(dbPass)

\* password === dbPass
LegacyMatch(password, dbPass) == password = dbPass

\* faulty variant: the submitted password is bound
MigrationValuePlain(newHash, password) == password

\* the value the migration UPDATE binds to the password column
MigrationValue(newHash, password) == newHash

IdleLogin ==
    [pc |-> "idle", reqBody |-> [username |-> <<>>, password |-> <<>>],
     username |-> <<>>, password |-> <<>>, user |-> NoUser, dbPass |-> <<>>,
     branch |-> "none", passOK |-> FALSE, newHash |-> <<>>,
     queries |-> 0, writes |-> 0, fault |-> "none", res |-> NoRes]

\* faulty variant: the secret is checked before the outcome of the
\* credential check is looked at
LoginTailSecretFirst(l, e, t) ==
    IF SecretKey(e) = "" THEN sendError(500, "Server missing SECRET_KEY")
    ELSE IF ~l.passOK THEN sendError(401, "Invalid password")
    ELSE [status |-> 200,
          body |-> [message |-> "Login successful",
                    token |-> JwtSign(LoginClaims(l.user), SecretKey(e), t),
                    user |-> SafeUser(l.user)]]

\* from "if (!passOK)" to the end of the try block: no await in between
LoginTail(l, e, t) ==
    IF ~l.passOK THEN sendError(401, "Invalid password")
    ELSE IF SecretKey(e) = "" THEN sendError(500, "Server missing SECRET_KEY")
    ELSE [status |-> 200,
          body |-> [message |-> "Login successful",
                    token |-> JwtSign(LoginClaims(l.user), SecretKey(e), t),
                    user |-> SafeUser(l.user)]]

\* faulty variant: a failed migration is logged and the request goes on
LoginCatchContinue(l, what) ==
    IF what \in {"hash", "update"}
    THEN [l EXCEPT !.pc = "done", !.fault = what, !.res = LoginTail(l, env, now)]
    ELSE [l EXCEPT !.pc = "done", !.fault = what,
                   !.res = sendError(500, "Login failed")]

\* faulty variant: a failed query is issued once more
LoginCatchRetry(l, what) ==
    IF what \in {"lookup", "update"} /\ l.fault = "none"
    THEN [l EXCEPT !.pc = what, !.fault = what]
    ELSE [l EXCEPT !.pc = "done", !.fault = what,
                   !.res = sendError(500, "Login failed")]

\* the catch block of handleLogin
LoginCatch(l, what) ==
    [l EXCEPT !.pc = "done", !.fault = what,
              !.res = sendError(500, "Login failed")]

\* request received: normalise and validate the input
LoginStart(r, u, p) ==
    /\ logins[r].pc = "idle"
    /\ LET l0 == [logins[r] EXCEPT !.reqBody = [username |-> u, password |-> p],
                                   !.username = Trim(u), !.password = p]
       IN logins' = [logins EXCEPT ![r] =
            IF l0.username = <<>> \/ l0.password = <<>>
            THEN [l0 EXCEPT !.pc = "done",
                            !.res = sendError(400, "username/password is required")]
            ELSE [l0 EXCEPT !.pc = "lookup"]]
    /\ UNCHANGED <<env, tbl_users, nextId, now, regs, vreq, ureqs>>

\* the SELECT resolves (ok) or rejects; then everything up to the next await
LoginLookup(r, ok) ==
    /\ logins[r].pc = "lookup"
    /\ LET l0 == [logins[r] EXCEPT !.queries = @ + 1]
           rows == SelectByUsername(tbl_users, l0.username)
       IN logins' = [logins EXCEPT ![r] =
            IF ~ok THEN LoginCatch(l0, "lookup")
            ELSE IF rows = {}
            THEN [l0 EXCEPT !.pc = "done", !.res = sendError(401, "User not found")]
            ELSE LET row == CHOOSE x \in rows : TRUE
                     l1 == [l0 EXCEPT !.user = Project(row, LoginColumns),
                                      !.dbPass = row.password]
                 IN IF IsHashed(l1.dbPass)
                    THEN [l1 EXCEPT !.pc = "compare", !.branch = "hashed"]
                    ELSE LET l2 == [l1 EXCEPT !.branch = "legacy",
                                       !.passOK = LegacyMatch(l1.password, l1.dbPass)]
                         IN IF l2.passOK
                            THEN [l2 EXCEPT !.pc = "hash"]
                            ELSE [l2 EXCEPT !.pc = "done",
                                            !.res = LoginTail(l2, env, now)]]
    /\ UNCHANGED <<env, tbl_users, nextId, now, regs, vreq, ureqs>>

\* bcrypt.compare resolves; the request runs to its response
LoginCompare(r) ==
    /\ logins[r].pc = "compare"
    /\ LET l1 == [logins[r] EXCEPT
                    !.passOK = BcryptCompare(logins[r].password, logins[r].dbPass)]
       IN logins' = [logins EXCEPT ![r] =
            [l1 EXCEPT !.pc = "done", !.res = LoginTail(l1, env, now)]]
    /\ UNCHANGED <<env, tbl_users, nextId, now, regs, vreq, ureqs>>

\* bcrypt.hash of the migration resolves with a fresh salt, or rejects
LoginHash(r, salt, ok) ==
    /\ logins[r].pc = "hash"
    /\ logins' = [logins EXCEPT ![r] =
            IF ~ok THEN LoginCatch(logins[r], "hash")
            ELSE [logins[r] EXCEPT !.pc = "update",
                      !.newHash = BcryptHash(logins[r].password, salt)]]
    /\ UNCHANGED <<env, tbl_users, nextId, now, regs, vreq, ureqs>>

\* the migration UPDATE resolves or rejects; on success the request runs to
\* its response
LoginUpdate(r, ok) ==
    /\ logins[r].pc = "update"
    /\ LET l0 == [logins[r] EXCEPT !.queries = @ + 1]
       IN IF ~ok
          THEN /\ logins' = [logins EXCEPT ![r] = LoginCatch(l0, "update")]
               /\ UNCHANGED tbl_users
          ELSE /\ tbl_users' = UpdatePassword(tbl_users, l0.user.id,
                                   MigrationValue(l0.newHash, l0.password), now)
               /\ LET l1 == [l0 EXCEPT !.writes = @ + 1]
                  IN logins' = [logins EXCEPT ![r] =
                        [l1 EXCEPT !.pc = "done", !.res = LoginTail(l1, env, now)]]
    /\ UNCHANGED <<env, nextId, now, regs, vreq, ureqs>>

\* ------------------------------------------------------- handleRegister
IdleReg ==
    [pc |-> "idle", reqBody |-> <<>>, firstname |-> <<>>, fullname |-> <<>>,
     lastname |-> <<>>, username |-> <<>>, password |-> <<>>, address |-> <<>>,
     sex |-> <<>>, birthday |-> <<>>, hashedPassword |-> <<>>,
     queries |-> 0, fault |-> "none", res |-> NoRes]

\* the catch block of handleRegister
RegCatch(g, what) ==
    [g EXCEPT !.pc = "done", !.fault = what,
              !.res = sendError(500, "Insert failed")]

\* the body of the 201 response
RegisterCreated(g, insertId) ==
    [status |-> 201,
     body |-> [id |-> insertId, firstname |-> g.firstname,
               fullname |-> g.fullname, lastname |-> g.lastname,
               username |-> g.username, address |-> g.address,
               sex |-> g.sex, birthday |-> g.birthday]]

\* faulty variant: the submitted password is stored
RegisterRowPlain(g, insertId, t) ==
    [id |-> insertId, firstname |-> OrNull(g.firstname),
     fullname |-> OrNull(g.fullname), lastname |-> OrNull(g.lastname),
     username |-> g.username, password |-> g.password,
     status |-> "active", updated_at |-> t]

\* the row the INSERT creates (status and updated_at take their defaults)
RegisterRow(g, insertId, t) ==
    [id |-> insertId, firstname |-> OrNull(g.firstname),
     fullname |-> OrNull(g.fullname), lastname |-> OrNull(g.lastname),
     username |-> g.username, password |-> g.hashedPassword,
     status |-> "active", updated_at |-> t]

\* request received: normalise and validate the input
RegStart(k, b) ==
    /\ regs[k].pc = "idle"
    /\ LET g0 == [regs[k] EXCEPT !.reqBody = b,
                     !.firstname = Trim(b.firstname), !.fullname = Trim(b.fullname),
                     !.lastname = Trim(b.lastname), !.username = Trim(b.username),
                     !.password = b.password, !.address = Trim(b.address),
                     !.sex = Trim(b.sex), !.birthday = Trim(b.birthday)]
       IN regs' = [regs EXCEPT ![k] =
            IF g0.username = <<>>
            THEN [g0 EXCEPT !.pc = "done",
                            !.res = sendError(400, "Username is required")]
            ELSE IF g0.password = <<>>
            THEN [g0 EXCEPT !.pc = "done",
                            !.res = sendError(400, "Password is required")]
            ELSE [g0 EXCEPT !.pc = "dupes"]]
    /\ UNCHANGED <<env, tbl_users, nextId, now, logins, vreq, ureqs>>

\* the duplicate check resolves or rejects
RegDupes(k, ok) ==
    /\ regs[k].pc = "dupes"
    /\ LET g0 == [regs[k] EXCEPT !.queries = @ + 1]
       IN regs' = [regs EXCEPT ![k] =
            IF ~ok THEN RegCatch(g0, "dupes")
            ELSE IF SelectByUsername(tbl_users, g0.username) # {}
            THEN [g0 EXCEPT !.pc = "done",
                            !.res = sendError(409, "Username already exists")]
            ELSE [g0 EXCEPT !.pc = "hash"]]
    /\ UNCHANGED <<env, tbl_users, nextId, now, logins, vreq, ureqs>>

\* bcrypt.hash resolves with a fresh salt, or rejects
RegHash(k, salt, ok) ==
    /\ regs[k].pc = "hash"
    /\ regs' = [regs EXCEPT ![k] =
            IF ~ok THEN RegCatch(regs[k], "hash")
            ELSE [regs[k] EXCEPT !.pc = "insert",
                      !.hashedPassword = BcryptHash(regs[k].password, salt)]]
    /\ UNCHANGED <<env, tbl_users, nextId, now, logins, vreq, ureqs>>

\* the INSERT resolves, or rejects (also on the UNIQUE index of username)
RegInsert(k, ok) ==
    /\ regs[k].pc = "insert"
    /\ LET g0 == [regs[k] EXCEPT !.queries = @ + 1]
       IN IF ~ok
          THEN /\ regs' = [regs EXCEPT ![k] = RegCatch(g0, "insert")]
               /\ UNCHANGED <<tbl_users, nextId>>
          ELSE IF SelectByUsername(tbl_users, g0.username) # {}
          THEN /\ regs' = [regs EXCEPT ![k] = RegCatch(g0, "duplicate")]
               /\ UNCHANGED <<tbl_users, nextId>>
          ELSE /\ tbl_users' = tbl_users \cup {RegisterRow(g0, nextId, now)}
               /\ nextId' = nextId + 1
               /\ regs' = [regs EXCEPT ![k] =
                     [g0 EXCEPT !.pc = "done", !.res = RegisterCreated(g0, nextId)]]
    /\ UNCHANGED <<env, now, logins, vreq, ureqs>>

\* ---------------------------------------------------------- verifyToken
\* the compact serialisation of the token a header carries
JwtText == <<"JWT">>

NoToken == [claims |-> <<>>, iat |-> 0, exp |-> 0, key |-> ""]

BearerPrefix == <<"B", "e", "a", "r", "e", "r", " ">>

\* faulty variant: the scheme is not looked at
ExtractTokenAnyScheme(authHeader) == Trim(Slice(authHeader, 7))

\* faulty variant: the token is not trimmed
ExtractTokenNoTrim(authHeader) ==
    IF StartsWith(authHeader, BearerPrefix) THEN Slice(authHeader, 7) ELSE <<>>

\* authHeader.startsWith("Bearer ") ? authHeader.slice(7).trim() : ""
ExtractToken(authHeader) ==
    IF StartsWith(authHeader, BearerPrefix) THEN Trim(Slice(authHeader, 7)) ELSE <<>>

\* faulty variant: the expiry is ignored
JwtValidNoExpiry(token, jwt, key, t) == token = JwtText /\ jwt.key = key

\* faulty variant: the signature is not checked
JwtValidNoSignature(token, jwt, key, t) == token = JwtText /\ t < jwt.exp

\* jwt.verify(token, key) at time t does not throw
JwtValid(token, jwt, key, t) ==
    /\ token = JwtText
    /\ jwt.key = key
    /\ t < jwt.exp

\* the payload jwt.verify returns
JwtDecoded(jwt) ==
    [role |-> jwt.claims.role, id |-> jwt.claims.id,
     fullname |-> jwt.claims.fullname, lastname |-> jwt.claims.lastname,
     status |-> jwt.claims.status, iat |-> jwt.iat, exp |-> jwt.exp]

IdleVerify ==
    [pc |-> "idle", header |-> [text |-> <<>>, jwt |-> NoToken], token |-> <<>>,
     secretRead |-> FALSE, verifyCalled |-> FALSE, at |-> 0,
     status |-> 0, body |-> <<>>, nextCalled |-> FALSE, user |-> <<>>]

\* faulty variant: the secret is not checked, so jwt.verify throws without one
verifyTokenNoSecretCheck(h, e, t) ==
    LET v0 == [IdleVerify EXCEPT !.pc = "done", !.header = h, !.at = t,
                                 !.token = ExtractToken(h.text)]
    IN IF v0.token = <<>>
       THEN [v0 EXCEPT !.status = 401, !.body = [error |-> "Missing token"]]
       ELSE LET v2 == [v0 EXCEPT !.secretRead = TRUE, !.verifyCalled = TRUE]
            IN IF SecretKey(e) # "" /\ JwtValid(v2.token, h.jwt, SecretKey(e), t)
               THEN [v2 EXCEPT !.user = JwtDecoded(h.jwt), !.nextCalled = TRUE]
               ELSE [v2 EXCEPT !.status = 401, !.body = [error |-> "Invalid token"]]

\* faulty variant: a token is refused once the record of its user is gone or
\* has been changed since the token was issued
verifyTokenChecksRecord(h, e, t) ==
    LET v0 == [IdleVerify EXCEPT !.pc = "done", !.header = h, !.at = t,
                                 !.token = ExtractToken(h.text)]
    IN IF v0.token = <<>>
       THEN [v0 EXCEPT !.status = 401, !.body = [error |-> "Missing token"]]
       ELSE LET v1 == [v0 EXCEPT !.secretRead = TRUE]
            IN IF SecretKey(e) = ""
               THEN [v1 EXCEPT !.status = 500,
                               !.body = [error |-> "Server missing SECRET_KEY"]]
               ELSE LET v2 == [v1 EXCEPT !.verifyCalled = TRUE]
                    IN IF /\ JwtValid(v2.token, h.jwt, SecretKey(e), t)
                          /\ \E row \in tbl_users :
                                 /\ row.id = h.jwt.claims.id
                                 /\ row.status = h.jwt.claims.status
                                 /\ row.updated_at <= h.jwt.iat
                       THEN [v2 EXCEPT !.user = JwtDecoded(h.jwt),
                                       !.nextCalled = TRUE]
                       ELSE [v2 EXCEPT !.status = 401,
                                       !.body = [error |-> "Invalid token"]]

\* verifyToken(req, res, next): synchronous, one step
verifyToken(h, e, t) ==
    LET v0 == [IdleVerify EXCEPT !.pc = "done", !.header = h, !.at = t,
                                 !.token = ExtractToken(h.text)]
    IN IF v0.token = <<>>
       THEN [v0 EXCEPT !.status = 401, !.body = [error |-> "Missing token"]]
       ELSE LET v1 == [v0 EXCEPT !.secretRead = TRUE]
            IN IF SecretKey(e) = ""
               THEN [v1 EXCEPT !.status = 500,
                               !.body = [error |-> "Server missing SECRET_KEY"]]
               ELSE LET v2 == [v1 EXCEPT !.verifyCalled = TRUE]
                    IN IF JwtValid(v2.token, h.jwt, SecretKey(e), t)
                       THEN [v2 EXCEPT !.user = JwtDecoded(h.jwt),
                                       !.nextCalled = TRUE]
                       ELSE [v2 EXCEPT !.status = 401,
                                       !.body = [error |-> "Invalid token"]]

VerifyToken(h) ==
    /\ vreq' = verifyToken(h, env, now)
    /\ UNCHANGED <<env, tbl_users, nextId, now, logins, regs, ureqs>>

\* ------------------------------------- routes/users.js (protected), logout
\* res.status(status).json({ error: message })
jsonError(status, message) == [status |-> status, body |-> [error |-> message]]

\* the columns the list and the get-by-id SELECT return (the rows of the
\* model carry no created_at)
UserColumns == {"id", "firstname", "fullname", "lastname", "username", "status"}

\* Number.isInteger(id) && id > 0; an id that is no integer arrives as 0
ValidId(id) == id > 0

IdleUserReq ==
    [pc |-> "idle", route |-> "", v |-> IdleVerify, id |-> 0, reqBody |-> <<>>,
     fields |-> <<>>, queries |-> 0, writes |-> 0, fault |-> "none",
     res |-> NoRes]

Reply(u, res) == [u EXCEPT !.pc = "done", !.res = res]

\* the catch block of a users handler
UsersCatch(u, what, message) ==
    [u EXCEPT !.pc = "done", !.fault = what, !.res = jsonError(500, message)]

\* faulty variant: the variant of the routes without the middleware
ProtectedNone(route) == FALSE

\* the routes that are registered with verifyToken in front of the handler
Protected(route) == route \in {"list", "get", "put", "delete", "logout"}

\* PUT /:id from the firstname field on, up to the next await or response
PutAfterUsername(u) ==
    LET b == u.reqBody
        names == [k \in DOMAIN b \cap {"firstname", "fullname", "lastname"} |->
                     OrNull(Trim(b[k]))]
        status == [k \in DOMAIN b \cap {"status"} |-> b[k]]
        u1 == [u EXCEPT !.fields = u.fields @@ names @@ status]
    IN IF "password" \in DOMAIN b
       THEN IF b.password = <<>>
            THEN Reply(u1, jsonError(400, "Password cannot be empty"))
            ELSE [u1 EXCEPT !.pc = "hash"]
       ELSE IF DOMAIN u1.fields = {}
            THEN Reply(u1, jsonError(400, "No fields to update"))
            ELSE [u1 EXCEPT !.pc = "update"]

\* PUT /:id up to its first await or response
PutStart(u) ==
    IF ~ValidId(u.id) THEN Reply(u, jsonError(400, "Invalid id"))
    ELSE IF "username" \in DOMAIN u.reqBody
    THEN IF Trim(u.reqBody.username) = <<>>
         THEN Reply(u, jsonError(400, "Username cannot be empty"))
         ELSE [u EXCEPT !.fields = [username |-> Trim(u.reqBody.username)],
                        !.pc = "dupes"]
    ELSE PutAfterUsername(u)

\* POST / up to its first await or response
PostStart(u) ==
    LET b == u.reqBody
        u1 == [u EXCEPT !.fields =
                 [firstname |-> Trim(b.firstname), fullname |-> Trim(b.fullname),
                  lastname |-> Trim(b.lastname), username |-> Trim(b.username),
                  password |-> b.password]]
    IN IF u1.fields.username = <<>>
       THEN Reply(u1, jsonError(400, "Username is required"))
       ELSE IF u1.fields.password = <<>>
       THEN Reply(u1, jsonError(400, "Password is required"))
       ELSE [u1 EXCEPT !.pc = "dupes"]

\* the handler of the route, up to its first await or response
HandlerStart(u) ==
    CASE u.route = "logout" ->
             Reply(u, [status |-> 200, body |-> [message |-> "Logged out"]])
      [] u.route = "list" -> [u EXCEPT !.pc = "query"]
      [] u.route \in {"get", "delete"} ->
             IF ~ValidId(u.id) THEN Reply(u, jsonError(400, "Invalid id"))
             ELSE [u EXCEPT !.pc = "query"]
      [] u.route = "put" -> PutStart(u)
      [] u.route = "post" -> PostStart(u)

\* a request arrives: verifyToken where the route has it, then the handler
UsersArrive(q, route, h, id, b) ==
    /\ ureqs[q].pc = "idle"
    /\ LET v == IF Protected(route) THEN verifyToken(h, env, now)
                ELSE [IdleVerify EXCEPT !.header = h, !.at = now]
           u0 == [ureqs[q] EXCEPT !.route = route, !.v = v, !.id = id,
                                  !.reqBody = b]
       IN ureqs' = [ureqs EXCEPT ![q] =
            IF Protected(route) /\ ~v.nextCalled
            THEN Reply(u0, [status |-> v.status, body |-> v.body])
            ELSE HandlerStart(u0)]
    /\ UNCHANGED <<env, tbl_users, nextId, now, logins, regs, vreq>>

\* the rows in the order of "ORDER BY id DESC"
RECURSIVE OrderByIdDesc(_)
OrderByIdDesc(rows) ==
    IF rows = {} THEN <<>>
    ELSE LET top == CHOOSE x \in rows : \A y \in rows : y.id <= x.id
         IN <<top>> \o OrderByIdDesc(rows \ {top})

SelectById(rows, id) == {row \in rows : row.id = id}

\* "UPDATE tbl_users SET <fields>, updated_at = NOW()" applied to a row
UpdateRow(row, fields, t) ==
    [f \in DOMAIN row |->
        IF f \in DOMAIN fields THEN fields[f]
        ELSE IF f = "updated_at" THEN t ELSE row[f]]

\* another row holds the username: the UNIQUE index rejects the statement
UniqueViolation(rows, id, fields) ==
    /\ "username" \in DOMAIN fields
    /\ \E row \in rows : row.username = fields.username /\ row.id # id

\* GET /: the SELECT resolves or rejects
ListQuery(q, ok) ==
    /\ ureqs[q].pc = "query" /\ ureqs[q].route = "list"
    /\ LET u0 == [ureqs[q] EXCEPT !.queries = @ + 1]
       IN ureqs' = [ureqs EXCEPT ![q] =
            IF ~ok THEN UsersCatch(u0, "query", "Query failed")
            ELSE Reply(u0, [status |-> 200,
                            body |-> [i \in 1..Cardinality(tbl_users) |->
                               Project(OrderByIdDesc(tbl_users)[i], UserColumns)]])]
    /\ UNCHANGED <<env, tbl_users, nextId, now, logins, regs, vreq>>

\* GET /:id: the SELECT resolves or rejects
GetQuery(q, ok) ==
    /\ ureqs[q].pc = "query" /\ ureqs[q].route = "get"
    /\ LET u0 == [ureqs[q] EXCEPT !.queries = @ + 1]
           rows == SelectById(tbl_users, u0.id)
       IN ureqs' = [ureqs EXCEPT ![q] =
            IF ~ok THEN UsersCatch(u0, "query", "Query failed")
            ELSE IF rows = {} THEN Reply(u0, jsonError(404, "User not found"))
            ELSE Reply(u0, [status |-> 200,
                            body |-> Project(CHOOSE x \in rows : TRUE, UserColumns)])]
    /\ UNCHANGED <<env, tbl_users, nextId, now, logins, regs, vreq>>

\* DELETE /:id: the DELETE resolves or rejects
DeleteQuery(q, ok) ==
    /\ ureqs[q].pc = "query" /\ ureqs[q].route = "delete"
    /\ LET u0 == [ureqs[q] EXCEPT !.queries = @ + 1]
           rows == SelectById(tbl_users, u0.id)
       IN IF ~ok \/ rows = {}
          THEN /\ ureqs' = [ureqs EXCEPT ![q] =
                     IF ~ok THEN UsersCatch(u0, "query", "Delete failed")
                     ELSE Reply(u0, jsonError(404, "User not found"))]
               /\ UNCHANGED tbl_users
          ELSE /\ tbl_users' = tbl_users \ rows
               /\ ureqs' = [ureqs EXCEPT ![q] =
                     Reply([u0 EXCEPT !.writes = @ + 1],
                           [status |-> 200,
                            body |-> [message |-> "User deleted successfully"]])]
    /\ UNCHANGED <<env, nextId, now, logins, regs, vreq>>

\* PUT /:id: the duplicate SELECT resolves or rejects
PutDupes(q, ok) ==
    /\ ureqs[q].pc = "dupes" /\ ureqs[q].route = "put"
    /\ LET u0 == [ureqs[q] EXCEPT !.queries = @ + 1]
       IN ureqs' = [ureqs EXCEPT ![q] =
            IF ~ok THEN UsersCatch(u0, "dupes", "Update failed")
            ELSE IF UniqueViolation(tbl_users, u0.id, u0.fields)
            THEN Reply(u0, jsonError(409, "Username already exists"))
            ELSE PutAfterUsername(u0)]
    /\ UNCHANGED <<env, tbl_users, nextId, now, logins, regs, vreq>>

\* PUT /:id: bcrypt.hash resolves with a fresh salt, or rejects
PutHash(q, salt, ok) ==
    /\ ureqs[q].pc = "hash" /\ ureqs[q].route = "put"
    /\ ureqs' = [ureqs EXCEPT ![q] =
            IF ~ok THEN UsersCatch(ureqs[q], "hash", "Update failed")
            ELSE [ureqs[q] EXCEPT !.pc = "update",
                     !.fields = [password |->
                                    BcryptHash(ureqs[q].reqBody.password, salt)]
                                @@ ureqs[q].fields]]
    /\ UNCHANGED <<env, tbl_users, nextId, now, logins, regs, vreq>>

\* PUT /:id: the UPDATE resolves, or rejects (also on the UNIQUE index)
PutUpdate(q, ok) ==
    /\ ureqs[q].pc = "update" /\ ureqs[q].route = "put"
    /\ LET u0 == [ureqs[q] EXCEPT !.queries = @ + 1]
           rows == SelectById(tbl_users, u0.id)
       IN IF ~ok
          THEN /\ ureqs' = [ureqs EXCEPT ![q] =
                     UsersCatch(u0, "update", "Update failed")]
               /\ UNCHANGED tbl_users
          ELSE IF rows = {}
          THEN /\ ureqs' = [ureqs EXCEPT ![q] =
                     Reply(u0, jsonError(404, "User not found"))]
               /\ UNCHANGED tbl_users
          ELSE IF UniqueViolation(tbl_users, u0.id, u0.fields)
          THEN /\ ureqs' = [ureqs EXCEPT ![q] =
                     UsersCatch(u0, "duplicate", "Update failed")]
               /\ UNCHANGED tbl_users
          ELSE /\ tbl_users' = (tbl_users \ rows)
                      \cup {UpdateRow(row, u0.fields, now) : row \in rows}
               /\ ureqs' = [ureqs EXCEPT ![q] =
                     Reply([u0 EXCEPT !.writes = @ + 1],
                           [status |-> 200,
                            body |-> [message |-> "User updated successfully"]])]
    /\ UNCHANGED <<env, nextId, now, logins, regs, vreq>>

\* POST /: the duplicate SELECT resolves or rejects
PostDupes(q, ok) ==
    /\ ureqs[q].pc = "dupes" /\ ureqs[q].route = "post"
    /\ LET u0 == [ureqs[q] EXCEPT !.queries = @ + 1]
       IN ureqs' = [ureqs EXCEPT ![q] =
            IF ~ok THEN UsersCatch(u0, "dupes", "Insert failed")
            ELSE IF SelectByUsername(tbl_users, u0.fields.username) # {}
            THEN Reply(u0, jsonError(409, "Username already exists"))
            ELSE [u0 EXCEPT !.pc = "hash"]]
    /\ UNCHANGED <<env, tbl_users, nextId, now, logins, regs, vreq>>

\* POST /: bcrypt.hash resolves with a fresh salt, or rejects
PostHash(q, salt, ok) ==
    /\ ureqs[q].pc = "hash" /\ ureqs[q].route = "post"
    /\ ureqs' = [ureqs EXCEPT ![q] =
            IF ~ok THEN UsersCatch(ureqs[q], "hash", "Insert failed")
            ELSE [ureqs[q] EXCEPT !.pc = "insert",
                     !.fields = [hashedPassword |->
                                    BcryptHash(ureqs[q].fields.password, salt)]
                                @@ ureqs[q].fields]]
    /\ UNCHANGED <<env, tbl_users, nextId, now, logins, regs, vreq>>

\* POST /: the INSERT resolves, or rejects (also on the UNIQUE index)
PostInsert(q, ok) ==
    /\ ureqs[q].pc = "insert" /\ ureqs[q].route = "post"
    /\ LET u0 == [ureqs[q] EXCEPT !.queries = @ + 1]
           f == u0.fields
       IN IF ~ok
          THEN /\ ureqs' = [ureqs EXCEPT ![q] =
                     UsersCatch(u0, "insert", "Insert failed")]
               /\ UNCHANGED <<tbl_users, nextId>>
          ELSE IF SelectByUsername(tbl_users, f.username) # {}
          THEN /\ ureqs' = [ureqs EXCEPT ![q] =
                     UsersCatch(u0, "duplicate", "Insert failed")]
               /\ UNCHANGED <<tbl_users, nextId>>
          ELSE /\ tbl_users' = tbl_users \cup
                      {[id |-> nextId, firstname |-> OrNull(f.firstname),
                        fullname |-> OrNull(f.fullname),
                        lastname |-> OrNull(f.lastname), username |-> f.username,
                        password |-> f.hashedPassword, status |-> "active",
                        updated_at |-> now]}
               /\ nextId' = nextId + 1
               /\ ureqs' = [ureqs EXCEPT ![q] =
                     Reply([u0 EXCEPT !.writes = @ + 1],
                           [status |-> 201,
                            body |-> [id |-> nextId, firstname |-> f.firstname,
                                      fullname |-> f.fullname,
                                      lastname |-> f.lastname,
                                      username |-> f.username]])]
    /\ UNCHANGED <<env, now, logins, regs, vreq>>

\* ---------------------------------------------------------------- clock
\* the instants at which the clock is observed
TimePoints == {0, ExpiresIn - 1, ExpiresIn, ExpiresIn + 1}

Tick ==
    /\ \E t \in TimePoints : t > now /\ now' = t
    /\ UNCHANGED <<env, tbl_users, nextId, logins, regs, vreq, ureqs>>

\* --------------------------------------------------------------- inputs
Cred(u, p) == [username |-> u, password |-> p]

\* the credentials clients submit to POST /login
LoginInputs ==
    { Cred(<<"j">>, <<"a">>), Cred(<<" ", "j", " ">>, <<"a">>),
      Cred(<<"j">>, <<"b">>), Cred(<<"j">>, <<" ">>),
      Cred(<<"m">>, <<"b">>), Cred(<<"m">>, <<"a">>),
      Cred(<<"m">>, BcryptHash(<<"b">>, "s1")),
      Cred(<<"d">>, <<"$", "2", "x">>), Cred(<<"n">>, <<"a">>),
      Cred(<<>>, <<"a">>), Cred(<<" ">>, <<"a">>), Cred(<<"j">>, <<>>) }

\* the credentials of the token and of the account scenarios
FewLoginInputs ==
    { Cred(<<"j">>, <<"a">>), Cred(<<"m">>, <<"b">>), Cred(<<"j">>, <<"b">>),
      Cred(<<"a">>, <<"a">>) }

RegBody(u, p, f) ==
    [firstname |-> <<>>, fullname |-> f, lastname |-> <<>>, username |-> u,
     password |-> p, address |-> <<>>, sex |-> <<>>, birthday |-> <<>>]

\* the bodies clients submit to POST /register
RegisterBodies ==
    { RegBody(<<"a">>, <<"a">>, <<>>), RegBody(<<" ", "a">>, <<"b">>, <<" ", "b">>),
      RegBody(<<"j">>, <<"a">>, <<>>), RegBody(<<>>, <<"a">>, <<>>),
      RegBody(<<"a">>, <<>>, <<"a">>) }

\* tokens the client holds from the 200 responses of its logins
IssuedTokens ==
    {logins[r].res.body.token : r \in {x \in LoginIds : logins[x].res.status = 200}}

\* tokens signed with a key that is not the server's
ForgedTokens ==
    { JwtSign([role |-> "user", id |-> 1, fullname |-> Null, lastname |-> Null,
               status |-> "active"], "evil", 0) }

HeadersWithJwt ==
    { BearerPrefix \o JwtText,
      BearerPrefix \o <<" ">> \o JwtText,
      BearerPrefix \o JwtText \o <<" ">>,
      BearerPrefix \o JwtText \o <<" ", "x">>,
      <<"b", "e", "a", "r", "e", "r", " ">> \o JwtText,
      <<"B", "e", "a", "r", "e", "r">> \o JwtText,
      <<"B", "a", "s", "i", "c", " ">> \o JwtText }

HeadersWithoutJwt ==
    { <<>>, BearerPrefix, BearerPrefix \o <<" ", " ">>, BearerPrefix \o <<"x">> }

Headers ==
    {[text |-> x, jwt |-> j] : x \in HeadersWithJwt, j \in IssuedTokens \cup ForgedTokens}
    \cup {[text |-> x, jwt |-> NoToken] : x \in HeadersWithoutJwt}

\* the headers the clients of the users routes send
UserHeaders ==
    {[text |-> BearerPrefix \o JwtText, jwt |-> j] : j \in IssuedTokens \cup ForgedTokens}
    \cup {[text |-> <<>>, jwt |-> NoToken]}

\* the headers of a client that presents the tokens of its logins
IssuedHeaders == {[text |-> BearerPrefix \o JwtText, jwt |-> j] : j \in IssuedTokens}

UReq(route, id, b) == [route |-> route, id |-> id, body |-> b]

\* requests to the routes that read
ReadRequests ==
    { UReq("list", 0, <<>>), UReq("get", 0, <<>>), UReq("get", 1, <<>>),
      UReq("get", 9, <<>>) }

\* requests that change or remove the record of a user, and the logout
AccountRequests ==
    { UReq("logout", 0, <<>>),
      UReq("put", 1, [status |-> "banned"]),
      UReq("put", 1, [password |-> <<"c">>]),
      UReq("delete", 1, <<>>) }

\* the other requests to PUT /:id and DELETE /:id
OtherChangeRequests ==
    { UReq("put", 0, [status |-> "banned"]),
      UReq("put", 9, [status |-> "banned"]),
      UReq("put", 1, <<>>),
      UReq("put", 1, [password |-> <<>>]),
      UReq("put", 1, [username |-> <<" ">>]),
      UReq("put", 1, [username |-> <<"m", " ">>]),
      UReq("put", 1, [username |-> <<"z">>, fullname |-> <<" ">>]),
      UReq("delete", 0, <<>>), UReq("delete", 9, <<>>) }

PostBody(u, p) ==
    [firstname |-> <<>>, fullname |-> <<>>, lastname |-> <<>>, username |-> u,
     password |-> p]

\* requests to POST /
PostRequests ==
    { UReq("post", 0, PostBody(<<"a", " ">>, <<"a">>)),
      UReq("post", 0, PostBody(<<"j">>, <<"a">>)),
      UReq("post", 0, PostBody(<<" ">>, <<"a">>)),
      UReq("post", 0, PostBody(<<"a">>, <<>>)) }

\* requests to PUT /:id that set a password
PasswordRequests ==
    { UReq("put", 1, [password |-> <<"c">>]),
      UReq("put", 3, [password |-> <<"$", "2", "x">>]),
      UReq("put", 2, [password |-> <<"b">>, status |-> "active"]) }

\* a client that sends its next request when the last one was answered
ArrivesAfter(pcs, r) == IF r = 1 THEN TRUE ELSE pcs[r - 1].pc = "done"

\* requests are numbered in the order they arrive
Arrives(pcs, r) == IF r = 1 THEN TRUE ELSE pcs[r - 1].pc # "idle"

\* -------------------------------------------------------- specification
Init ==
    /\ env \in [SECRET_KEY : {"", "k1"}, JWT_SECRET : {"", "k2"}]
    /\ tbl_users = InitialRows
    /\ nextId = 4
    /\ now = 0
    /\ logins = [r \in LoginIds |-> IdleLogin]
    /\ regs = [k \in RegIds |-> IdleReg]
    /\ vreq = IdleVerify
    /\ ureqs = [q \in UserReqIds |-> IdleUserReq]

\* the steps of the login requests after their arrival
LoginSteps ==
    \/ \E r \in LoginIds, ok \in BOOLEAN : LoginLookup(r, ok)
    \/ \E r \in LoginIds : LoginCompare(r)
    \/ \E r \in LoginIds, salt \in Salts, ok \in BOOLEAN : LoginHash(r, salt, ok)
    \/ \E r \in LoginIds, ok \in BOOLEAN : LoginUpdate(r, ok)

LoginArrival(ids, inputs) ==
    \E r \in ids, i \in inputs :
        Arrives(logins, r) /\ LoginStart(r, i.username, i.password)

RegisterArrival(ids) ==
    \E k \in ids, b \in RegisterBodies : Arrives(regs, k) /\ RegStart(k, b)

\* the steps of the registrations after their arrival
RegisterSteps ==
    \/ \E k \in RegIds, ok \in BOOLEAN : RegDupes(k, ok)
    \/ \E k \in RegIds, salt \in Salts, ok \in BOOLEAN : RegHash(k, salt, ok)
    \/ \E k \in RegIds, ok \in BOOLEAN : RegInsert(k, ok)

VerifySteps == \E h \in Headers : VerifyToken(h)

\* the logins of one client, one after the other
LoginArrivalInTurn(ids, inputs) ==
    \E r \in ids, i \in inputs :
        ArrivesAfter(logins, r) /\ LoginStart(r, i.username, i.password)

UsersArrival(ids, requests) ==
    \E q \in ids, h \in UserHeaders, x \in requests :
        Arrives(ureqs, q) /\ UsersArrive(q, x.route, h, x.id, x.body)

\* the requests of one client, one after the other
UsersArrivalInTurn(ids, headers, requests) ==
    \E q \in ids, h \in headers, x \in requests :
        ArrivesAfter(ureqs, q) /\ UsersArrive(q, x.route, h, x.id, x.body)

ReadSteps ==
    \/ \E q \in UserReqIds, ok \in BOOLEAN : ListQuery(q, ok)
    \/ \E q \in UserReqIds, ok \in BOOLEAN : GetQuery(q, ok)

ChangeSteps ==
    \/ \E q \in UserReqIds, salt \in Salts, ok \in BOOLEAN : PutHash(q, salt, ok)
    \/ \E q \in UserReqIds, ok \in BOOLEAN : PutUpdate(q, ok)
    \/ \E q \in UserReqIds, ok \in BOOLEAN : DeleteQuery(q, ok)

PostSteps ==
    \/ \E q \in UserReqIds, ok \in BOOLEAN : PostDupes(q, ok)
    \/ \E q \in UserReqIds, salt \in Salts, ok \in BOOLEAN : PostHash(q, salt, ok)
    \/ \E q \in UserReqIds, ok \in BOOLEAN : PostInsert(q, ok)

UsersSteps ==
    \/ ReadSteps
    \/ \E q \in UserReqIds, ok \in BOOLEAN : PutDupes(q, ok)
    \/ ChangeSteps
    \/ PostSteps

Next ==
    \/ LoginArrival(LoginIds, LoginInputs \cup FewLoginInputs)
    \/ LoginSteps
    \/ RegisterArrival(RegIds)
    \/ RegisterSteps
    \/ VerifySteps
    \/ UsersArrival(UserReqIds,
           ReadRequests \cup AccountRequests \cup OtherChangeRequests
               \cup PostRequests)
    \/ UsersSteps
    \/ Tick

Spec == Init /\ [][Next]_vars

\* POST /login alone: every interleaving of its requests, with store and
\* hashing failures
NextLogin == LoginArrival(LoginIds, LoginInputs) \/ LoginSteps

SpecLogin == Init /\ [][NextLogin]_vars

\* issuing tokens and verifying them as time passes
NextAuth == LoginArrival({1}, FewLoginInputs) \/ LoginSteps \/ VerifySteps \/ Tick

SpecAuth == Init /\ [][NextAuth]_vars

\* registration and login together
NextAccount ==
    \/ LoginArrival({1}, FewLoginInputs)
    \/ LoginSteps
    \/ RegisterArrival({1})
    \/ RegisterSteps

SpecAccount == Init /\ [][NextAccount]_vars

\* the users routes behind verifyToken, with the login that issues tokens
NextUsers ==
    \/ LoginArrival({1}, FewLoginInputs)
    \/ LoginSteps
    \/ UsersArrivalInTurn({1, 2}, UserHeaders,
           ReadRequests \cup AccountRequests \cup OtherChangeRequests
               \cup PostRequests)
    \/ UsersSteps

SpecUsers == Init /\ [][NextUsers]_vars

\* a client that logs in and then changes, removes and uses its account
NextSession ==
    \/ LoginArrivalInTurn({1, 2}, {Cred(<<"j">>, <<"a">>)})
    \/ LoginSteps
    \/ UsersArrivalInTurn({1, 2}, IssuedHeaders, AccountRequests)
    \/ ChangeSteps
    \/ Tick

SpecSession == Init /\ [][NextSession]_vars

\* POST /register alone: every interleaving of its requests
NextRegister == RegisterArrival(RegIds) \/ RegisterSteps

SpecRegister == Init /\ [][NextRegister]_vars

\* every writer of the password column: registration, POST /api/users, PUT
\* with a password, and the migration of a login
NextPasswords ==
    \/ LoginArrival({1}, FewLoginInputs)
    \/ LoginSteps
    \/ RegisterArrival({1})
    \/ RegisterSteps
    \/ UsersArrival({1}, PasswordRequests \cup PostRequests)
    \/ \E q \in UserReqIds, salt \in Salts, ok \in BOOLEAN : PutHash(q, salt, ok)
    \/ \E q \in UserReqIds, ok \in BOOLEAN : PutUpdate(q, ok)
    \/ PostSteps

SpecPasswords == Init /\ [][NextPasswords]_vars

\* a legacy login racing with a change of the same user's password; the
\* other login supplies the token of the PUT
NextRace ==
    \/ LoginArrival({1, 2}, {Cred(<<"m">>, <<"b">>), Cred(<<"j">>, <<"a">>)})
    \/ LoginSteps
    \/ UsersArrival({1}, {UReq("put", 1, [password |-> <<"c">>])})
    \/ \E q \in UserReqIds, salt \in Salts, ok \in BOOLEAN : PutHash(q, salt, ok)
    \/ \E q \in UserReqIds, ok \in BOOLEAN : PutUpdate(q, ok)

SpecRace == Init /\ [][NextRace]_vars

\* one login at a time of day that moves on
NextLoginClock == LoginArrival({1}, LoginInputs) \/ LoginSteps \/ Tick

SpecLoginClock == Init /\ [][NextLoginClock]_vars

\* ================================================================ claims
HasToken(res) == "token" \in DOMAIN res.body

\* the row that tbl_users held for an id when the server started
InitialRow(id) == CHOOSE row \in InitialRows : row.id = id

\* the request read a legacy record and submitted its plaintext
CorrectLegacy(l) ==
    /\ l.branch = "legacy"
    /\ l.password = l.dbPass

\* C1: once a login of a user has been answered 200, the stored password of
\* that user, while the record exists, starts with "$2" and differs from the
\* submitted plaintext, in that state and in every later one; a request that
\* read legacy plaintext has written the hash before it is answered 200.
C1_StoredHashAfterLogin ==
    \A r \in LoginIds :
        logins[r].res.status = 200 =>
            /\ \A row \in tbl_users :
                   row.id = logins[r].user.id =>
                       /\ StartsWith(row.password, <<"$", "2">>)
                       /\ row.password # logins[r].password
            /\ ~StartsWith(logins[r].dbPass, <<"$", "2">>) =>
                   /\ logins[r].writes = 1
                   /\ StartsWith(logins[r].newHash, <<"$", "2">>)

C1_Witness ==
    \E r \in LoginIds :
        /\ logins[r].res.status = 200
        /\ CorrectLegacy(logins[r])
        /\ \E row \in tbl_users :
               row.id = logins[r].user.id /\ StartsWith(row.password, <<"$", "2">>)

\* C2 as stated: a failed hash or UPDATE of the migration still ends the
\* request of a legacy user with the right password in 200 and a token.
C2_MigrationFailureStill200 ==
    \A r \in LoginIds :
        (CorrectLegacy(logins[r]) /\ logins[r].fault \in {"hash", "update"}) =>
            logins[r].res.status = 200 /\ HasToken(logins[r].res)

\* C2, amended: a failed hash or UPDATE of the migration ends the request
\* of a legacy user with the right password in 500 "Login failed", with no
\* token.
C2_MigrationFailureIs500 ==
    \A r \in LoginIds :
        (CorrectLegacy(logins[r]) /\ logins[r].fault \in {"hash", "update"}) =>
            /\ logins[r].res = [status |-> 500,
                                body |-> [error |-> "Login failed",
                                          message |-> "Login failed"]]
            /\ ~HasToken(logins[r].res)

C2_Witness ==
    \E r \in LoginIds :
        /\ CorrectLegacy(logins[r])
        /\ logins[r].fault = "update"
        /\ logins[r].pc = "done"

SecretUnset == env.SECRET_KEY = "" /\ env.JWT_SECRET = ""

\* the header carries something after a case-sensitive "Bearer "
CarriesToken(text) ==
    /\ Len(text) > 7
    /\ SubSeq(text, 1, 7) = <<"B", "e", "a", "r", "e", "r", " ">>
    /\ \E i \in 8..Len(text) : text[i] # " "

\* C3 as stated: with the secret unset every login attempt fails with a
\* 500 and every token verification fails with a 500; no token is
\* produced and no request is passed on.
C3_UnsetSecretAlways500 ==
    SecretUnset =>
        /\ \A r \in LoginIds :
               logins[r].pc = "done" =>
                   logins[r].res.status = 500 /\ ~HasToken(logins[r].res)
        /\ vreq.pc = "done" => vreq.status = 500 /\ ~vreq.nextCalled

\* C3, amended: with the secret unset no login produces a token and
\* verifyToken passes no request on; a login whose credential check passed
\* fails with a 500 and a verification of a header carrying a token fails
\* with a 500, while a request that fails an earlier check keeps that
\* check's 400 or 401.
C3_UnsetSecretFailsClosed ==
    SecretUnset =>
        /\ \A r \in LoginIds :
               logins[r].pc = "done" =>
                   /\ ~HasToken(logins[r].res)
                   /\ logins[r].res.status \in {400, 401, 500}
                   /\ logins[r].passOK => logins[r].res.status = 500
        /\ vreq.pc = "done" =>
               /\ ~vreq.nextCalled
               /\ vreq.user = <<>>
               /\ vreq.status \in {401, 500}
               /\ CarriesToken(vreq.header.text) => vreq.status = 500

C3_Witness ==
    /\ SecretUnset
    /\ \E r \in LoginIds :
           /\ logins[r].passOK
           /\ logins[r].fault = "none"
           /\ logins[r].res.status = 500
    /\ vreq.status = 500
    /\ vreq.header.jwt.key = "evil"

\* the string values a response body carries besides its fixed messages
BodyStrings(res) ==
    IF res.status = 200
    THEN {res.body.user[f] : f \in DOMAIN res.body.user \ {"id", "status"}}
         \cup {res.body.token.claims[f] :
                  f \in DOMAIN res.body.token.claims \ {"role", "id", "status"}}
    ELSE IF res.status = 201
    THEN {res.body[f] : f \in DOMAIN res.body \ {"id"}}
    ELSE {}

\* the password values a login request handled: submitted, stored, rewritten
LoginPasswordValues(l) == {l.password, l.dbPass, l.newHash} \ {<<>>}

RegisterPasswordValues(g) == {g.password, g.hashedPassword} \ {<<>>}

\* the non-password values the 200 body of a login is built from
LoginEchoed(l) == {l.user[f] : f \in {"firstname", "fullname", "lastname", "username"}}

\* the non-password values the 201 body of a registration is built from
RegisterEchoed(g) ==
    {Trim(g.reqBody[f]) : f \in {"firstname", "fullname", "lastname", "username",
                                 "address", "sex", "birthday"}}

ErrorShape(res, statuses) ==
    /\ res.status \in statuses
    /\ DOMAIN res.body = {"error", "message"}
    /\ res.body.error = res.body.message

Mismatch(l) ==
    \/ l.branch = "hashed" /\ ~BcryptCompare(l.password, l.dbPass)
    \/ l.branch = "legacy" /\ l.password # l.dbPass

InvalidPassword ==
    [status |-> 401,
     body |-> [error |-> "Invalid password", message |-> "Invalid password"]]

\* C5: a login of an existing user with a password that does not match the
\* stored credential is answered 401 "Invalid password" without a token, it
\* issues no query but its lookup, and no step of it changes any field of
\* any row of tbl_users.
C5_WrongPasswordNoMutation ==
    /\ [](\A r \in LoginIds :
            (logins[r].pc = "done" /\ Mismatch(logins[r])) =>
                /\ logins[r].res = InvalidPassword
                /\ logins[r].writes = 0
                /\ logins[r].queries = 1)
    /\ [][\A r \in LoginIds :
            (logins'[r] # logins[r] /\ logins'[r].pc = "done" /\ Mismatch(logins'[r]))
                => tbl_users' = tbl_users]_vars

C5_Witness ==
    /\ \E r \in LoginIds :
           /\ logins[r].branch = "hashed"
           /\ logins[r].res = InvalidPassword
    /\ \E r \in LoginIds :
           /\ logins[r].branch = "legacy"
           /\ logins[r].res = InvalidPassword

\* the request read a hash that an earlier migration wrote for a user whose
\* record was legacy plaintext, and submitted that plaintext again
AfterMigration(l) ==
    /\ l.user.id \in {row.id : row \in InitialRows}
    /\ ~StartsWith(InitialRow(l.user.id).password, <<"$", "2">>)
    /\ BcryptCompare(InitialRow(l.user.id).password, l.dbPass)
    /\ l.password = InitialRow(l.user.id).password

\* C6: a login that follows the migration of its user with the same
\* password reads the migrated hash, takes the hashed branch, is answered
\* 200 with a token (the secret being set and its lookup not failing), and
\* writes nothing: its only query is the lookup and its steps leave
\* tbl_users as it was.
C6_MigrationOnlyOnce ==
    /\ [](\A r \in LoginIds :
            (logins[r].pc = "done" /\ AfterMigration(logins[r])) =>
                /\ logins[r].branch = "hashed"
                /\ logins[r].writes = 0
                /\ logins[r].queries = 1
                /\ logins[r].newHash = <<>>
                /\ ~SecretUnset =>
                       logins[r].res.status = 200 /\ HasToken(logins[r].res))
    /\ [][\A r \in LoginIds :
            (logins'[r] # logins[r] /\ AfterMigration(logins'[r]))
                => tbl_users' = tbl_users]_vars
    /\ [][\A r1, r2 \in LoginIds :
            ( /\ logins[r1].res.status = 200 /\ logins[r1].writes = 1
              /\ logins[r2].pc = "lookup" /\ logins'[r2].pc # "lookup"
              /\ logins'[r2].fault = "none"
              /\ logins[r2].username = logins[r1].username
              /\ logins[r2].password = logins[r1].password )
                => logins'[r2].branch = "hashed" /\ AfterMigration(logins'[r2])]_vars

C6_Witness ==
    \E r1, r2 \in LoginIds :
        /\ r1 # r2
        /\ logins[r1].res.status = 200 /\ logins[r1].writes = 1
        /\ logins[r2].res.status = 200 /\ AfterMigration(logins[r2])
        /\ logins[r2].dbPass = logins[r1].newHash
        /\ \E row \in tbl_users : row.password = logins[r1].newHash

\* the two requests are for the same user, whose record was legacy plaintext
\* when the server started, both with that plaintext, and both ran to their
\* end without a store or hashing failure
BothCorrect(r1, r2) ==
    /\ r1 # r2
    /\ logins[r1].pc = "done" /\ logins[r2].pc = "done"
    /\ logins[r1].fault = "none" /\ logins[r2].fault = "none"
    /\ logins[r1].user.id = logins[r2].user.id
    /\ logins[r1].user.id \in {row.id : row \in InitialRows}
    /\ ~StartsWith(InitialRow(logins[r1].user.id).password, <<"$", "2">>)
    /\ logins[r1].password = InitialRow(logins[r1].user.id).password
    /\ logins[r2].password = InitialRow(logins[r1].user.id).password

\* a 200 response with a token for the user, signed with the server's key
ValidLogin(l) ==
    /\ l.res.status = 200
    /\ HasToken(l.res)
    /\ l.res.body.token.key \in {env.SECRET_KEY, env.JWT_SECRET} \ {""}
    /\ l.res.body.token.claims.id = l.user.id
    /\ l.res.body.token.exp = l.res.body.token.iat + 3600

\* C8: two logins of the same legacy user, both with the right password and
\* without a store failure, are both answered 200 with a valid token (the
\* secret being set) however their reads, hashes and writes interleave; each
\* write-back replaces the stored password, so the last one stands, and the
\* stored value is a hash that verifies against the original password.
C8_ConcurrentMigration ==
    /\ [](\A r1, r2 \in LoginIds :
            BothCorrect(r1, r2) =>
                /\ ~SecretUnset => ValidLogin(logins[r1]) /\ ValidLogin(logins[r2])
                /\ \A row \in tbl_users :
                       row.id = logins[r1].user.id =>
                           /\ StartsWith(row.password, <<"$", "2">>)
                           /\ BcryptCompare(InitialRow(row.id).password, row.password)
                           /\ \E r \in LoginIds :
                                  logins[r].writes = 1 /\ row.password = logins[r].newHash)
    /\ [][\A r \in LoginIds :
            (logins[r].pc = "update" /\ logins'[r].writes = 1) =>
                \A row \in tbl_users' :
                    row.id = logins[r].user.id => row.password = logins[r].newHash]_vars

C8_Witness ==
    /\ BothCorrect(1, 2)
    /\ ValidLogin(logins[1]) /\ ValidLogin(logins[2])
    /\ logins[1].writes = 1 /\ logins[2].writes = 1
    /\ logins[1].newHash # logins[2].newHash
    /\ \E row \in tbl_users : row.password = logins[1].newHash

\* the header is exactly "Bearer " followed by the token of a 200 response
PresentsIssued ==
    /\ vreq.pc = "done"
    /\ vreq.header.text = <<"B", "e", "a", "r", "e", "r", " ", "JWT">>
    /\ \E r \in LoginIds :
           /\ logins[r].res.status = 200
           /\ logins[r].res.body.token = vreq.header.jwt

\* C7: a token that handleLogin issued is accepted by verifyToken at every
\* time before its issuance + 1 hour, and req.user then carries the role,
\* id, fullname, lastname and status of the login's record; at every time
\* after issuance + 1 hour it is rejected 401 "Invalid token" and the
\* downstream handler is not invoked.
C7_TokenRoundTrip ==
    PresentsIssued =>
        /\ vreq.at < vreq.header.jwt.iat + 3600 =>
               /\ vreq.nextCalled
               /\ vreq.status = 0
               /\ \E r \in LoginIds :
                      /\ logins[r].res.status = 200
                      /\ logins[r].res.body.token = vreq.header.jwt
                      /\ vreq.user.role = "user"
                      /\ vreq.user.id = logins[r].user.id
                      /\ vreq.user.fullname = logins[r].user.fullname
                      /\ vreq.user.lastname = logins[r].user.lastname
                      /\ vreq.user.status = logins[r].user.status
        /\ vreq.at > vreq.header.jwt.iat + 3600 =>
               /\ ~vreq.nextCalled
               /\ vreq.status = 401
               /\ vreq.body = [error |-> "Invalid token"]
               /\ vreq.user = <<>>

C7_Witness ==
    /\ PresentsIssued
    /\ vreq.at = vreq.header.jwt.iat + 3599
    /\ vreq.nextCalled
    /\ vreq.user.id = 2

MissingToken ==
    /\ vreq.status = 401
    /\ vreq.body = [error |-> "Missing token"]
    /\ ~vreq.secretRead
    /\ ~vreq.verifyCalled
    /\ ~vreq.nextCalled

\* the header is "Bearer ", one space and a token without whitespace
StrictBearer(text) ==
    /\ Len(text) > 7
    /\ SubSeq(text, 1, 7) = <<"B", "e", "a", "r", "e", "r", " ">>
    /\ \A i \in 8..Len(text) : text[i] # " "

\* C9 as stated: every request whose Authorization header is absent or not
\* strictly "Bearer <token>" (one space, non-empty token) is rejected 401
\* "Missing token" before the secret is read or a token parsed.
C9_NonStrictHeaderRejected ==
    (vreq.pc = "done" /\ ~StrictBearer(vreq.header.text)) => MissingToken

\* C9, amended: every request whose Authorization header is absent, does not
\* start with the case-sensitive "Bearer ", or holds nothing but whitespace
\* after it is rejected 401 "Missing token" before the secret is read or a
\* token parsed; whitespace around the token is trimmed, so every other
\* header goes on to the secret check.
C9_HeaderWithoutTokenRejected ==
    vreq.pc = "done" =>
        IF CarriesToken(vreq.header.text)
        THEN vreq.secretRead /\ vreq.body # [error |-> "Missing token"]
        ELSE MissingToken

C9_Witness ==
    /\ ~SecretUnset
    /\ vreq.pc = "done"
    /\ vreq.header.text = <<"b", "e", "a", "r", "e", "r", " ", "JWT">>
    /\ vreq.header.jwt.key = SecretKey(env)
    /\ MissingToken

\* C10: a request that carries a bearer token while no secret is configured
\* is answered 500 "Server missing SECRET_KEY", never a 4xx; no signature is
\* checked and the downstream handler is not invoked.
C10_MissingSecretIs500 ==
    (vreq.pc = "done" /\ CarriesToken(vreq.header.text) /\ SecretUnset) =>
        /\ vreq.status = 500
        /\ vreq.body = [error |-> "Server missing SECRET_KEY"]
        /\ ~vreq.verifyCalled
        /\ ~vreq.nextCalled

C10_Witness ==
    /\ SecretUnset
    /\ vreq.pc = "done"
    /\ vreq.header.text = <<"B", "e", "a", "r", "e", "r", " ", " ", "JWT">>
    /\ vreq.status = 500

\* the key the server signs and verifies with
ConfiguredSecret == IF env.SECRET_KEY # "" THEN env.SECRET_KEY ELSE env.JWT_SECRET

\* what follows "Bearer " is not the serialisation of a token
Malformed(v) == v.token # <<"JWT">>

BadSignature(v) == v.header.jwt.key # ConfiguredSecret

Expired(v) == v.at >= v.header.jwt.exp

InvalidToken(v) ==
    /\ v.status = 401
    /\ v.body = [error |-> "Invalid token"]
    /\ v.user = <<>>
    /\ ~v.nextCalled

\* C11: with a secret configured, a bearer token that is malformed, signed
\* with another key or expired is answered 401 with the one body
\* {error: "Invalid token"}, whatever the cause; req.user stays unset and the
\* downstream handler is not invoked.
C11_InvalidTokenUniform401 ==
    (/\ vreq.pc = "done"
     /\ ~SecretUnset
     /\ CarriesToken(vreq.header.text)
     /\ (Malformed(vreq) \/ BadSignature(vreq) \/ Expired(vreq)))
        => InvalidToken(vreq)

C11_Witness ==
    /\ ~SecretUnset
    /\ vreq.pc = "done"
    /\ vreq.header.text = <<"B", "e", "a", "r", "e", "r", " ", "JWT">>
    /\ BadSignature(vreq)
    /\ ~Malformed(vreq)
    /\ ~Expired(vreq)
    /\ InvalidToken(vreq)

\* nothing is left of the string once its surrounding spaces are removed
Blank(s) == \A i \in 1..Len(s) : s[i] = " "

\* the body fails the validation of POST /login
LoginRejectedInput(b) == Blank(b.username) \/ b.password = <<>>

\* C12: a login whose username is empty once trimmed, or whose password is
\* the empty string, is answered 400 without any store query; the password is
\* not trimmed, so a password of spaces passes; every other login goes on to
\* its lookup and is never answered 400.
C12_EmptyCredentials400 ==
    \A r \in LoginIds :
        logins[r].pc # "idle" =>
            IF LoginRejectedInput(logins[r].reqBody)
            THEN /\ logins[r].pc = "done"
                 /\ logins[r].res.status = 400
                 /\ ~HasToken(logins[r].res)
                 /\ logins[r].queries = 0
                 /\ logins[r].writes = 0
            ELSE /\ logins[r].res.status # 400
                 /\ logins[r].pc = "lookup" \/ logins[r].queries >= 1

C12_Witness ==
    /\ \E r \in LoginIds :
           /\ logins[r].reqBody = [username |-> <<" ">>, password |-> <<"a">>]
           /\ logins[r].res.status = 400
           /\ logins[r].queries = 0
    /\ \E r \in LoginIds :
           /\ logins[r].reqBody = [username |-> <<"j">>, password |-> <<" ">>]
           /\ logins[r].queries = 1
           /\ logins[r].res.status = 401

\* the request passed validation and no record has its trimmed username
UnknownUser(l) ==
    /\ ~LoginRejectedInput(l.reqBody)
    /\ \A row \in tbl_users : row.username # l.username
    /\ \A row \in InitialRows : row.username # l.username

UserNotFound ==
    [status |-> 401,
     body |-> [error |-> "User not found", message |-> "User not found"]]

\* C13: a login of a username that no record has is answered 401 with a body
\* of the shape of the password-mismatch body, {error, message}, and the text
\* "User not found"; it carries no token, nothing is compared or hashed, its
\* only query is the lookup and its steps leave tbl_users as it was.
C13_UnknownUser401 ==
    /\ [](\A r \in LoginIds :
            (logins[r].pc = "done" /\ logins[r].fault = "none"
                /\ UnknownUser(logins[r])) =>
                /\ logins[r].res = UserNotFound
                /\ DOMAIN logins[r].res.body = DOMAIN InvalidPassword.body
                /\ logins[r].res.status = InvalidPassword.status
                /\ logins[r].res.body # InvalidPassword.body
                /\ ~HasToken(logins[r].res)
                /\ logins[r].branch = "none"
                /\ ~logins[r].passOK
                /\ logins[r].newHash = <<>>
                /\ logins[r].queries = 1
                /\ logins[r].writes = 0)
    /\ [][\A r \in LoginIds :
            (logins'[r] # logins[r] /\ UnknownUser(logins'[r]))
                => tbl_users' = tbl_users]_vars

C13_Witness ==
    \E r \in LoginIds :
        /\ logins[r].reqBody = [username |-> <<"n">>, password |-> <<"a">>]
        /\ logins[r].res = UserNotFound
        /\ \E x \in LoginIds : logins[x].res = InvalidPassword

\* a store query of the request was rejected
QueryFailed(l) == l.fault \in {"lookup", "update"}

\* C16: a login whose lookup or whose migration UPDATE fails issues no
\* further query (the failed one was its first, or its second), is answered
\* once, with 500 and without a token, and nothing of it changes afterwards.
C16_FailedQueryNotRetried ==
    /\ [](\A r \in LoginIds :
            QueryFailed(logins[r]) =>
                /\ logins[r].pc = "done"
                /\ logins[r].res.status = 500
                /\ ~HasToken(logins[r].res)
                /\ logins[r].queries = IF logins[r].fault = "lookup" THEN 1 ELSE 2)
    /\ [][\A r \in LoginIds :
            QueryFailed(logins[r]) => logins'[r] = logins[r]]_vars

C16_Witness ==
    /\ \E r \in LoginIds :
           /\ logins[r].fault = "update"
           /\ logins[r].queries = 2
           /\ logins[r].res.status = 500
    /\ \E r \in LoginIds :
           /\ logins[r].fault = "lookup"
           /\ logins[r].queries = 1
           /\ logins[r].res.status = 500

\* the stored password begins with the two characters "$2"
DollarTwo(dbPass) == Len(dbPass) >= 2 /\ dbPass[1] = "$" /\ dbPass[2] = "2"

\* the request read a stored password that begins with "$2" and had
\* submitted exactly that value
SubmitsStoredDollarTwo(l) ==
    /\ l.branch # "none"
    /\ DollarTwo(l.dbPass)
    /\ l.password = l.dbPass

\* C18: a login that found its record takes the hashed branch exactly when
\* the stored password begins with "$2" and the equality branch otherwise;
\* so a login that submits the stored value of a record whose password
\* begins with "$2" is not matched by equality, migrates nothing, writes
\* nothing and gets no token.
C18_BranchByPrefix ==
    /\ [](\A r \in LoginIds :
            /\ logins[r].branch # "none" =>
                   (logins[r].branch = "hashed" <=> DollarTwo(logins[r].dbPass))
            /\ logins[r].branch = "legacy" =>
                   (logins[r].passOK <=> logins[r].password = logins[r].dbPass)
            /\ SubmitsStoredDollarTwo(logins[r]) =>
                   /\ logins[r].branch = "hashed"
                   /\ ~logins[r].passOK
                   /\ logins[r].newHash = <<>>
                   /\ logins[r].writes = 0
                   /\ logins[r].queries = 1
                   /\ logins[r].res.status # 200
                   /\ ~HasToken(logins[r].res))
    /\ [][\A r \in LoginIds :
            (logins'[r] # logins[r] /\ SubmitsStoredDollarTwo(logins'[r]))
                => tbl_users' = tbl_users]_vars

C18_Witness ==
    \E r \in LoginIds :
        /\ logins[r].user.id = 3
        /\ logins[r].dbPass = <<"$", "2", "x">>
        /\ logins[r].password = <<"$", "2", "x">>
        /\ logins[r].branch = "hashed"
        /\ logins[r].res = InvalidPassword

\* s is core with spaces around it, and core has no space at either end
TrimsTo(s, core) ==
    /\ core # <<>>
    /\ core[1] # " "
    /\ core[Len(core)] # " "
    /\ \E a \in 0..Len(s) :
           /\ a + Len(core) <= Len(s)
           /\ SubSeq(s, a + 1, a + Len(core)) = core
           /\ \A i \in (1..a) \cup ((a + Len(core) + 1)..Len(s)) : s[i] = " "

\* the submitted password matches the stored value the request read
CheckSucceeded(l) ==
    IF DollarTwo(l.dbPass)
    THEN \E salt \in Salts : l.dbPass = BcryptHash(l.password, salt)
    ELSE l.branch # "none" /\ l.password = l.dbPass

\* the values the password column of a record takes
StoredPasswords(id) ==
    {InitialRow(id).password}
    \cup {BcryptHash(InitialRow(id).password, salt) : salt \in Salts}

\* C19: every token of a login was issued in a request whose password
\* matched the stored value that its own lookup read from the record of the
\* trimmed username; it carries role "user" and the id, fullname, lastname
\* and status of that record and expires 3600 seconds after it was issued.
\* The status is carried only: every request whose password matched, with
\* the secret set and no failure, gets a token whatever the status.
C19_TokenOnlyAfterCheck ==
    \A r \in LoginIds :
        /\ HasToken(logins[r].res) =>
               /\ logins[r].res.status = 200
               /\ CheckSucceeded(logins[r])
               /\ TrimsTo(logins[r].reqBody.username, logins[r].user.username)
               /\ logins[r].password = logins[r].reqBody.password
               /\ logins[r].user.id \in {row.id : row \in InitialRows}
               /\ logins[r].user.username = InitialRow(logins[r].user.id).username
               /\ logins[r].dbPass \in StoredPasswords(logins[r].user.id)
               /\ logins[r].res.body.token.claims =
                      [role |-> "user",
                       id |-> logins[r].user.id,
                       fullname |-> InitialRow(logins[r].user.id).fullname,
                       lastname |-> InitialRow(logins[r].user.id).lastname,
                       status |-> InitialRow(logins[r].user.id).status]
               /\ logins[r].res.body.token.exp = logins[r].res.body.token.iat + 3600
               /\ logins[r].res.body.token.key = ConfiguredSecret
        /\ (/\ logins[r].pc = "done"
            /\ logins[r].fault = "none"
            /\ ~SecretUnset
            /\ CheckSucceeded(logins[r])) => HasToken(logins[r].res)

C19_Witness ==
    \E r \in LoginIds :
        /\ HasToken(logins[r].res)
        /\ logins[r].res.body.token.claims.status = "banned"
        /\ logins[r].res.body.token.claims.id = 2
        /\ \E x \in LoginIds :
               /\ HasToken(logins[x].res)
               /\ logins[x].reqBody.username = <<" ", "j", " ">>
               /\ logins[x].res.body.token.claims.id = 1

\* the header is "Bearer ", then the serialised token with nothing but
\* spaces around it; the token is signed with the configured secret and the
\* request arrives before the token expires
Acceptable(v) ==
    /\ CarriesToken(v.header.text)
    /\ ~SecretUnset
    /\ TrimsTo(SubSeq(v.header.text, 8, Len(v.header.text)), <<"JWT">>)
    /\ v.header.jwt.key = ConfiguredSecret
    /\ v.at < v.header.jwt.exp

\* C17: verifyToken invokes the downstream handler exactly when the header
\* yields a non-empty bearer token, a secret is configured and the token's
\* signature and expiry are valid; req.user is then the decoded payload and
\* the middleware has sent nothing. In every other case it has sent one
\* error response, 401 or 500, req.user is unset and the downstream handler
\* is not invoked.
C17_NextIffValid ==
    vreq.pc = "done" =>
        /\ vreq.nextCalled <=> Acceptable(vreq)
        /\ vreq.nextCalled =>
               /\ vreq.status = 0
               /\ vreq.body = <<>>
               /\ vreq.user =
                      [role |-> vreq.header.jwt.claims.role,
                       id |-> vreq.header.jwt.claims.id,
                       fullname |-> vreq.header.jwt.claims.fullname,
                       lastname |-> vreq.header.jwt.claims.lastname,
                       status |-> vreq.header.jwt.claims.status,
                       iat |-> vreq.header.jwt.iat,
                       exp |-> vreq.header.jwt.exp]
        /\ ~vreq.nextCalled =>
               /\ vreq.status \in {401, 500}
               /\ DOMAIN vreq.body = {"error"}
               /\ vreq.user = <<>>

C17_Witness ==
    /\ vreq.pc = "done"
    /\ vreq.header.text = <<"B", "e", "a", "r", "e", "r", " ", " ", "JWT">>
    /\ vreq.nextCalled
    /\ vreq.user.id = 1
    /\ vreq.at > 0

\* the registration passed validation, ran to its response, and no query or
\* hashing of it failed for a reason other than the uniqueness of username
RegAnswered(g) ==
    /\ g.pc = "done"
    /\ g.fault \in {"none", "duplicate"}
    /\ g.username # <<>>
    /\ g.password # <<>>

UsernameExists ==
    [status |-> 409,
     body |-> [error |-> "Username already exists",
               message |-> "Username already exists"]]

NoTwoRecordsShareUsername ==
    \A x \in tbl_users, y \in tbl_users : x.username = y.username => x = y

\* C15: a registration of a username that a record holds is answered 409
\* "Username already exists" and inserts nothing, and no two records share a
\* username, in every interleaving: of two registrations of the same new
\* username exactly one is answered 201 and the other 409, also when the
\* other's record appears between a request's duplicate check and its insert.
C15_DuplicateRegistration409 ==
    /\ NoTwoRecordsShareUsername
    /\ \A k \in RegIds :
           (RegAnswered(regs[k]) /\ regs[k].res.status # 201
               /\ \E row \in tbl_users : row.username = regs[k].username)
               => regs[k].res = UsernameExists
    /\ \A k1 \in RegIds, k2 \in RegIds :
           (/\ k1 # k2
            /\ RegAnswered(regs[k1])
            /\ RegAnswered(regs[k2])
            /\ regs[k1].username = regs[k2].username
            /\ regs[k1].res.status = 201)
               => regs[k2].res = UsernameExists

\* the store keeps usernames unique and a registration rejected by the
\* duplicate check or by the UNIQUE index inserts nothing
C15_StoreKeepsUsernamesUnique ==
    /\ [](NoTwoRecordsShareUsername)
    /\ [][\A k \in RegIds :
            (regs'[k] # regs[k] /\ regs'[k].res.status \in {409, 500})
                => tbl_users' = tbl_users]_vars

\* both requests passed the duplicate check; one inserted, the other's
\* INSERT was rejected by the UNIQUE index and it was answered 500
C15_Witness ==
    \E k1 \in RegIds, k2 \in RegIds :
        /\ regs[k1].username = <<"a">>
        /\ regs[k2].username = <<"a">>
        /\ regs[k1].res.status = 201
        /\ regs[k2].fault = "duplicate"
        /\ regs[k2].queries = 2
        /\ regs[k2].res = sendError(500, "Insert failed")
        /\ Cardinality({row \in tbl_users : row.username = <<"a">>}) = 1

\* the request went through verifyToken with the header "Bearer <token>" of
\* a token that a login issued, before that token expired
PresentsLiveToken(u) ==
    /\ u.pc # "idle"
    /\ u.route \in {"list", "get", "put", "delete", "logout"}
    /\ u.v.header.text = <<"B", "e", "a", "r", "e", "r", " ", "JWT">>
    /\ \E r \in LoginIds :
           /\ logins[r].res.status = 200
           /\ logins[r].res.body.token = u.v.header.jwt
    /\ u.v.at < u.v.header.jwt.iat + 3600

\* C14: a token that a login issued is accepted by verifyToken at every
\* time before its expiry, whatever happened to the account since: a logout
\* with the token, an update of the password or of the status, a later
\* login, the deletion of the record. The middleware answers none of these
\* requests itself; the handler of the route does.
C14_NoRevocation ==
    \A q \in UserReqIds :
        PresentsLiveToken(ureqs[q]) =>
            /\ ureqs[q].v.nextCalled
            /\ ureqs[q].v.status = 0
            /\ ureqs[q].v.user.id = ureqs[q].v.header.jwt.claims.id
            /\ ureqs[q].pc = "done" =>
                   /\ ureqs[q].res.status \in {200, 404, 500}
                   /\ ureqs[q].res.body # [error |-> "Invalid token"]
            /\ ureqs[q].route = "logout" =>
                   ureqs[q].res = [status |-> 200, body |-> [message |-> "Logged out"]]

\* the record of user 1 was deleted with the token of user 1; the next
\* request, a logout one second before the token expires, is accepted
C14_Witness ==
    /\ ureqs[1].route = "delete"
    /\ ureqs[1].id = 1
    /\ ureqs[1].res.status = 200
    /\ ureqs[1].writes = 1
    /\ \A row \in tbl_users : row.id # 1
    /\ logins[1].res.status = 200
    /\ logins[2].res.status = 200
    /\ ureqs[2].route = "logout"
    /\ ureqs[2].v.header.jwt = logins[1].res.body.token
    /\ ureqs[2].v.user.id = 1
    /\ ureqs[2].v.at = ureqs[2].v.header.jwt.iat + 3599
    /\ ureqs[2].v.nextCalled
    /\ ureqs[2].res.status = 200

\* the request is to one of the four gated handlers of /api/users
Gated(u) == u.pc # "idle" /\ u.route \in {"list", "get", "put", "delete"}

\* the handler of the request has been entered
InHandler(u) == u.pc \in {"dupes", "hash", "query", "update", "insert"} \/ u.queries > 0

\* C20: in the protected variant a request to the list, get-by-id, update or
\* delete handler issues no query unless verifyToken accepted its token: a
\* request that verifyToken rejected is answered by the middleware, 401 or
\* 500, has read and written nothing, and its step leaves the store as it
\* was. POST / runs without verifyToken: no header is looked at.
C20_QueriesOnlyBehindToken ==
    /\ [](\A q \in UserReqIds :
            /\ (Gated(ureqs[q]) /\ InHandler(ureqs[q])) =>
                   ureqs[q].v.nextCalled /\ Acceptable(ureqs[q].v)
            /\ (Gated(ureqs[q]) /\ ~Acceptable(ureqs[q].v)) =>
                   /\ ureqs[q].pc = "done"
                   /\ ureqs[q].res.status \in {401, 500}
                   /\ ureqs[q].res.body \in
                          {[error |-> "Missing token"], [error |-> "Invalid token"],
                           [error |-> "Server missing SECRET_KEY"]}
                   /\ ureqs[q].queries = 0
                   /\ ureqs[q].writes = 0
            /\ (ureqs[q].pc # "idle" /\ ureqs[q].route = "post") =>
                   /\ ~ureqs[q].v.secretRead
                   /\ ~ureqs[q].v.verifyCalled
                   /\ ureqs[q].res.body \notin
                          {[error |-> "Missing token"], [error |-> "Invalid token"],
                           [error |-> "Server missing SECRET_KEY"]})
    /\ [][\A q \in UserReqIds :
            (ureqs'[q] # ureqs[q] /\ Gated(ureqs'[q]) /\ ~Acceptable(ureqs'[q].v))
                => (tbl_users' = tbl_users /\ nextId' = nextId)]_vars

\* a DELETE with a forged token was refused and the row is still there; the
\* POST that followed, without any header, created a record
C20_Witness ==
    /\ ~SecretUnset
    /\ ureqs[1].route = "delete"
    /\ ureqs[1].id = 1
    /\ ureqs[1].v.header.jwt.key = "evil"
    /\ ureqs[1].res = [status |-> 401, body |-> [error |-> "Invalid token"]]
    /\ ureqs[1].queries = 0
    /\ \E row \in tbl_users : row.id = 1
    /\ ureqs[2].route = "post"
    /\ ureqs[2].v.header.text = <<>>
    /\ ureqs[2].res.status = 201
    /\ \E row \in tbl_users : row.username = <<"a">> /\ row.id = ureqs[2].res.body.id

\* the value is the encoding of a bcrypt hash: "$2b$", a salt, a digest
EncodedHash(h) ==
    /\ Len(h) > 5
    /\ SubSeq(h, 1, 4) = <<"$", "2", "b", "$">>
    /\ h[5] \in {"s1", "s2"}
    /\ \A i \in 6..Len(h) : h[i] \notin {"$", "2", "b", "s1", "s2"}

\* the users whose stored password is not the encoding of a hash
LegacyIds(rows) == {row.id : row \in {x \in rows : ~EncodedHash(x.password)}}

\* the passwords the requests so far have submitted
SubmittedPasswords ==
    {logins[r].reqBody.password : r \in LoginIds}
    \cup {regs[k].reqBody.password : k \in {x \in RegIds : regs[x].pc # "idle"}}
    \cup {ureqs[q].reqBody.password :
             q \in {x \in UserReqIds : "password" \in DOMAIN ureqs[x].reqBody}}

\* the row is new, or its password is not the one its id had before
PasswordWritten(row, before) ==
    \A old \in before : old.id = row.id => old.password # row.password

\* C21: every value that a step writes to the password column (a
\* registration, POST /api/users, PUT with a password, the migration of a
\* login) is the encoding of a bcrypt hash, begins with "$2" and is none of
\* the submitted passwords; so no step adds a user to those whose stored
\* password is legacy plaintext.
C21_OnlyHashesWritten ==
    /\ [][\A row \in tbl_users' :
            PasswordWritten(row, tbl_users) =>
                /\ DollarTwo(row.password)
                /\ EncodedHash(row.password)
                /\ row.password \notin SubmittedPasswords]_vars
    /\ [][LegacyIds(tbl_users') \subseteq LegacyIds(tbl_users)]_vars

\* the migration of user 1, a registration and the PUT of user 3 with the
\* very text that was stored have all written, and no legacy user is left
C21_Witness ==
    /\ logins[1].writes = 1
    /\ regs[1].res.status = 201
    /\ ureqs[1].writes = 1
    /\ ureqs[1].route = "put"
    /\ ureqs[1].reqBody = [password |-> <<"$", "2", "x">>]
    /\ \A row \in tbl_users : row.id = 3 => row.password # <<"$", "2", "x">>
    /\ LegacyIds(tbl_users) = {}
    /\ Cardinality(tbl_users) = 4

\* h is the encoding of a hash of p
HashOf(p, h) == \E salt \in Salts : h = BcryptHash(p, salt)

\* the stored password of the user, <<>> when the record is gone
StoredPassword(id) ==
    IF \E row \in tbl_users : row.id = id
    THEN (CHOOSE row \in tbl_users : row.id = id).password
    ELSE <<>>

\* the PUT set a new password for the user of the login and was answered
\* 200; the login had read the legacy plaintext and has written its hash
PutAndMigration(u, l) ==
    /\ u.route = "put"
    /\ u.res.status = 200
    /\ u.writes = 1
    /\ "password" \in DOMAIN u.reqBody
    /\ l.branch = "legacy"
    /\ l.writes = 1
    /\ l.user.id = u.id
    /\ l.password # u.reqBody.password

\* C22: the UPDATE of the migration is keyed by the id alone: whatever the
\* row holds when it runs, the row then has the hash of the password the
\* login submitted. So when a PUT of a new password and the migration of a
\* legacy login have both written, the stored password is the hash of one of
\* the two; when it is the migration's, the old password matches and the new
\* one does not, although the PUT was answered 200.
C22_MigrationOverwritesNewPassword ==
    /\ [][\A r \in LoginIds :
            logins'[r].writes = logins[r].writes + 1 =>
                /\ StoredPassword(logins[r].user.id)' = logins'[r].newHash
                /\ HashOf(logins[r].password, StoredPassword(logins[r].user.id)')]_vars
    /\ [](\A r \in LoginIds, q \in UserReqIds :
            PutAndMigration(ureqs[q], logins[r]) =>
                /\ \/ HashOf(logins[r].password, StoredPassword(ureqs[q].id))
                   \/ HashOf(ureqs[q].reqBody.password, StoredPassword(ureqs[q].id))
                /\ StoredPassword(ureqs[q].id) = logins[r].newHash =>
                       /\ BcryptCompare(logins[r].password, StoredPassword(ureqs[q].id))
                       /\ ~BcryptCompare(ureqs[q].reqBody.password,
                                         StoredPassword(ureqs[q].id)))

\* the login read the plaintext "a", the PUT of "c" was answered 200, and
\* the row holds the hash of "a" that the migration wrote after it
C22_Witness ==
    \E r \in LoginIds :
        /\ PutAndMigration(ureqs[1], logins[r])
        /\ logins[r].dbPass = <<"a">>
        /\ logins[r].res.status = 200
        /\ ureqs[1].reqBody.password = <<"c">>
        /\ StoredPassword(1) = logins[r].newHash
        /\ BcryptCompare(<<"a">>, StoredPassword(1))
        /\ ~BcryptCompare(<<"c">>, StoredPassword(1))

MissingSecret ==
    [status |-> 500,
     body |-> [error |-> "Server missing SECRET_KEY",
               message |-> "Server missing SECRET_KEY"]]

\* the updated_at of the record of the user
StoredUpdatedAt(id) == (CHOOSE row \in tbl_users : row.id = id).updated_at

\* C23: with the secret unset, a login of a legacy user with the right
\* password is answered 500 "Server missing SECRET_KEY" without a token
\* after its migration has been written: the step that writes sets the
\* password to the hash and updated_at to the time of the write. A login
\* with a wrong password or an unknown username is answered 401 and one with
\* a missing credential 400, none of them 500.
C23_SecretCheckedLast ==
    /\ [](SecretUnset =>
            \A r \in LoginIds :
                (logins[r].pc = "done" /\ logins[r].fault = "none") =>
                    /\ CorrectLegacy(logins[r]) =>
                           /\ logins[r].res = MissingSecret
                           /\ ~HasToken(logins[r].res)
                           /\ logins[r].writes = 1
                           /\ EncodedHash(StoredPassword(logins[r].user.id))
                           /\ HashOf(logins[r].password,
                                     StoredPassword(logins[r].user.id))
                    /\ logins[r].passOK => logins[r].res = MissingSecret
                    /\ Mismatch(logins[r]) => logins[r].res = InvalidPassword
                    /\ UnknownUser(logins[r]) => logins[r].res = UserNotFound
                    /\ LoginRejectedInput(logins[r].reqBody) =>
                           /\ logins[r].res.status = 400
                           /\ logins[r].writes = 0)
    /\ [][\A r \in LoginIds :
            (SecretUnset /\ logins'[r].writes = logins[r].writes + 1) =>
                /\ logins'[r].res = MissingSecret
                /\ StoredPassword(logins[r].user.id) # StoredPassword(logins[r].user.id)'
                /\ StoredPassword(logins[r].user.id)' = logins'[r].newHash
                /\ StoredUpdatedAt(logins[r].user.id)' = now]_vars

C23_Witness ==
    /\ SecretUnset
    /\ logins[1].reqBody = [username |-> <<"j">>, password |-> <<"a">>]
    /\ logins[1].res = MissingSecret
    /\ logins[1].writes = 1
    /\ EncodedHash(StoredPassword(1))
    /\ StoredUpdatedAt(1) = 3599
    /\ now = 3601

====
